---- MODULE Spec2Model ----
(***************************************************************************)
(* Model of the email alias generator (email-alias-generator/src/App.js):  *)
(* the CSV upload handler, header / headerless record extraction, the      *)
(* shared email extraction primitive and the alias generator.              *)
(*                                                                         *)
(* JavaScript strings are sequences of one-character strings, so that the  *)
(* regular expressions, trim, split, toLowerCase and includes of the       *)
(* source are computed character by character.                             *)
(***************************************************************************)
EXTENDS Integers, Sequences, FiniteSets, TLC

VARIABLES
    uploadedData,    \* useState([])   App.js:6
    processedData,   \* useState([])   App.js:7
    isProcessing,    \* useState(false) App.js:8
    error,           \* useState('')   App.js:9
    parses,          \* Papa.parse calls whose callback has not run yet
    nextReq,         \* number of uploads started so far (request ids)
    lastEvent,       \* history: the handler or callback that ran last
    landed,          \* history: the uploads whose records were set since the last clear
    call             \* argument/result cell of the pure-function specifications

vars == <<uploadedData, processedData, isProcessing, error, parses, nextReq,
          lastEvent, landed, call>>

----------------------------------------------------------------------------
(* Characters and JavaScript string primitives                             *)

LowerSeq == <<"a","b","c","d","e","f","g","h","i","j","k","l","m",
              "n","o","p","q","r","s","t","u","v","w","x","y","z">>
UpperSeq == <<"A","B","C","D","E","F","G","H","I","J","K","L","M",
              "N","O","P","Q","R","S","T","U","V","W","X","Y","Z">>
DigitSeq == <<"0","1","2","3","4","5","6","7","8","9">>

Range(s) == {s[i] : i \in DOMAIN s}

Lower == Range(LowerSeq)
Upper == Range(UpperSeq)
Digit == Range(DigitSeq)
Letter == Lower \cup Upper

\* [a-zA-Z0-9._%+-]
LocalChars == Letter \cup Digit \cup {".", "_", "%", "+", "-"}
\* [a-zA-Z0-9.-]
DomainChars == Letter \cup Digit \cup {".", "-"}
\* \s and the characters String.prototype.trim removes
WhiteSpace == {" ", "\t", "\n", "\r"}

\* null / undefined
Null == <<"<null>">>

\* JavaScript truthiness of a cell value (a string, or null)
Truthy(v) == v # Null /\ v # <<>>

ToLowerChar(c) ==
    IF c \in Upper THEN LowerSeq[CHOOSE i \in DOMAIN UpperSeq : UpperSeq[i] = c]
    ELSE c

ToLowerCase(s) == [i \in DOMAIN s |-> ToLowerChar(s[i])]

\* String.prototype.trim
Trim(s) ==
    LET keep == {i \in DOMAIN s : s[i] \notin WhiteSpace}
    IN  IF keep = {} THEN <<>>
        ELSE LET lo == CHOOSE i \in keep : \A j \in keep : i <= j
                 hi == CHOOSE i \in keep : \A j \in keep : j <= i
             IN  SubSeq(s, lo, hi)

\* String.prototype.includes
Includes(s, sub) ==
    \E i \in 1..(Len(s) - Len(sub) + 1) : SubSeq(s, i, i + Len(sub) - 1) = sub

\* String.prototype.endsWith
EndsWith(s, suffix) ==
    /\ Len(s) >= Len(suffix)
    /\ SubSeq(s, Len(s) - Len(suffix) + 1, Len(s)) = suffix

\* String.prototype.split(/\s+/)
RECURSIVE SplitWS(_)
SplitWS(s) ==
    LET ws == {i \in DOMAIN s : s[i] \in WhiteSpace}
    IN  IF ws = {} THEN <<s>>
        ELSE LET a == CHOOSE i \in ws : \A j \in ws : i <= j
                 after == {i \in DOMAIN s : i > a /\ s[i] \notin WhiteSpace}
                 b == IF after = {} THEN Len(s) + 1
                      ELSE CHOOSE i \in after : \A j \in after : i <= j
             IN  <<SubSeq(s, 1, a - 1)>> \o SplitWS(SubSeq(s, b, Len(s)))

\* Array.prototype.join(' ')
RECURSIVE JoinSpace(_)
JoinSpace(parts) ==
    IF Len(parts) = 0 THEN <<>>
    ELSE IF Len(parts) = 1 THEN parts[1]
    ELSE parts[1] \o <<" ">> \o JoinSpace(Tail(parts))

\* Number.prototype.toString() of a non-negative integer
RECURSIVE ToDecimal(_)
ToDecimal(n) ==
    IF n < 10 THEN <<DigitSeq[n + 1]>>
    ELSE ToDecimal(n \div 10) \o <<DigitSeq[(n % 10) + 1]>>

----------------------------------------------------------------------------
(* Email pattern, extraction and alias generation                          *)

AllIn(s, lo, hi, class) == \A k \in lo..hi : s[k] \in class

\* emailRegex.test(s):  /^[a-zA-Z0-9._%+-]+@[a-zA-Z0-9.-]+\.[a-zA-Z]{2,}$/
emailRegexTest(s) ==
    \E i \in DOMAIN s :
        /\ s[i] = "@"
        /\ i > 1
        /\ AllIn(s, 1, i - 1, LocalChars)
        /\ \E j \in (i + 2)..(Len(s) - 2) :
               /\ s[j] = "."
               /\ AllIn(s, i + 1, j - 1, DomainChars)
               /\ AllIn(s, j + 1, Len(s), Letter)

\* Last index of the maximal run of characters of class starting at from
\* (from - 1 when s[from] is not in class or from is past the end).
RunEnd(s, from, class) ==
    LET stop == {k \in from..Len(s) : s[k] \notin class}
    IN  IF stop = {} THEN Len(s)
        ELSE (CHOOSE k \in stop : \A m \in stop : k <= m) - 1

\* The match of /[a-zA-Z0-9._%+-]+@[a-zA-Z0-9.-]+\.[a-zA-Z]{2,}/ that starts
\* at position p, as the backtracking matcher finds it (every quantifier
\* greedy), or Null when there is none.
MatchAt(s, p) ==
    LET q == RunEnd(s, p, LocalChars) + 1          \* position of "@"
        r == RunEnd(s, q + 1, DomainChars)          \* end of the domain run
        dots == {j \in (q + 2)..(r - 2) :
                    s[j] = "." /\ s[j + 1] \in Letter /\ s[j + 2] \in Letter}
    IN  IF q = p \/ q > Len(s) THEN Null
        ELSE IF s[q] # "@" THEN Null
        ELSE IF dots = {} THEN Null
        ELSE LET j == CHOOSE d \in dots : \A e \in dots : e <= d
             IN  SubSeq(s, p, RunEnd(s, j + 1, Letter))

\* stringValue.match(/.../): the leftmost match, or Null
MatchEmail(s) ==
    LET starts == {p \in DOMAIN s : MatchAt(s, p) # Null}
    IN  IF starts = {} THEN Null
        ELSE MatchAt(s, CHOOSE p \in starts : \A o \in starts : p <= o)

\* extractEmail returning the whole cell when an email is embedded in it
ExtractEmailWholeCell(value) ==
    IF ~Truthy(value) THEN Null
    ELSE LET stringValue == Trim(value)
         IN  IF emailRegexTest(stringValue) THEN stringValue
             ELSE IF MatchEmail(stringValue) # Null THEN stringValue
             ELSE Null

\* extractEmail: the trimmed value when it is an email in full, else the
\* first email embedded in it, else null
extractEmail(value) ==
    IF ~Truthy(value) THEN Null
    ELSE LET stringValue == Trim(value)
         IN  IF emailRegexTest(stringValue) THEN stringValue
             ELSE MatchEmail(stringValue)

AliasDomain == <<"@","c","d","n","h","y","d",".","a","p","p","e","n",".","c","o","m">>

\* Math.floor(Math.random() * 10000) lies in 0 .. RandomNumRange - 1
RandomNumRange == 10000

\* Digits of toString(36)
Base36 == Digit \cup Lower

\* Math.random().toString(36): a random double prints as "0." followed by
\* the digits of its shortest base-36 expansion, and 0 prints as "0".
\* frac is that digit string.
RandomToString36(frac) == IF frac = <<>> THEN <<"0">> ELSE <<"0", ".">> \o frac

\* String.prototype.substring(from, to) with 0-based from <= to
Substring(s, from, to) ==
    LET hi == IF to > Len(s) THEN Len(s) ELSE to
    IN  IF from >= hi THEN <<>> ELSE SubSeq(s, from + 1, hi)

\* email.split('@')[0]
LocalPart(email) ==
    LET ats == {i \in DOMAIN email : email[i] = "@"}
    IN  IF ats = {} THEN email
        ELSE SubSeq(email, 1, (CHOOSE i \in ats : \A j \in ats : i <= j) - 1)

\* localPart.charAt(0).toLowerCase()
FirstChar(email) ==
    LET localPart == LocalPart(email)
    IN  IF localPart = <<>> THEN <<>> ELSE <<ToLowerChar(localPart[1])>>

\* generateAlias with the lower-casing of the first character left out
GenerateAliasNoLower(email, randomNum, frac) ==
    LET localPart == LocalPart(email)
    IN  (IF localPart = <<>> THEN <<>> ELSE <<localPart[1]>>)
        \o ToDecimal(randomNum)
        \o Substring(RandomToString36(frac), 2, 5)
        \o AliasDomain

\* generateAlias(email); randomNum and frac are the two Math.random() draws
generateAlias(email, randomNum, frac) ==
    FirstChar(email)
    \o ToDecimal(randomNum)
    \o Substring(RandomToString36(frac), 2, 5)
    \o AliasDomain

----------------------------------------------------------------------------
(* Header strategy                                                         *)

\* A header-mode row is the sequence of its fields in Object.keys order,
\* each a record [key, val].

FirstNameNames == << <<"f","i","r","s","t">>, <<"f","n","a","m","e">>,
                     <<"f","i","r","s","t","n","a","m","e">>,
                     <<"g","i","v","e","n">> >>
LastNameNames == << <<"l","a","s","t">>, <<"l","n","a","m","e">>,
                    <<"l","a","s","t","n","a","m","e">>,
                    <<"s","u","r","n","a","m","e">>,
                    <<"f","a","m","i","l","y">> >>
EmailNames == << <<"e","m","a","i","l">>, <<"e","-","m","a","i","l">>,
                 <<"m","a","i","l">>, <<"a","d","d","r","e","s","s">> >>

\* possibleNames.some(name => lowerKey.includes(name))
KeyMatches(key, possibleNames) ==
    LET lowerKey == Trim(ToLowerCase(key))
    IN  \E n \in DOMAIN possibleNames : Includes(lowerKey, possibleNames[n])

\* findColumn iterating the names first and the keys second
FindColumnNamesFirst(row, possibleNames) ==
    LET hits == {n \in DOMAIN possibleNames :
                    \E i \in DOMAIN row :
                        Includes(Trim(ToLowerCase(row[i].key)), possibleNames[n])}
    IN  IF hits = {} THEN Null
        ELSE LET n == CHOOSE h \in hits : \A g \in hits : h <= g
                 at == {i \in DOMAIN row :
                           Includes(Trim(ToLowerCase(row[i].key)), possibleNames[n])}
             IN  row[CHOOSE i \in at : \A j \in at : i <= j].val

\* findColumn(row, possibleNames): the value of the first key that contains
\* one of the names, or null
findColumn(row, possibleNames) ==
    LET hits == {i \in DOMAIN row : KeyMatches(row[i].key, possibleNames)}
    IN  IF hits = {} THEN Null
        ELSE row[CHOOSE i \in hits : \A j \in hits : i <= j].val

\* v || ''
OrEmpty(v) == IF Truthy(v) THEN v ELSE <<>>

\* The loop of App.js:70-76: the first extractEmail that succeeds over
\* Object.values(row), or null
ScanValues(row) ==
    LET hits == {i \in DOMAIN row : Truthy(extractEmail(row[i].val))}
    IN  IF hits = {} THEN Null
        ELSE extractEmail(row[CHOOSE i \in hits : \A j \in hits : i <= j].val)

\* The email of one row, App.js:66-80
RowEmail(row) ==
    LET email == findColumn(row, EmailNames)
    IN  IF ~Truthy(email) THEN ScanValues(row) ELSE extractEmail(email)

\* The messages of setError
ErrFileType == "Please upload a CSV file"
ErrNoData == "No valid data found in CSV"
ErrNoEmails == "No valid email addresses found in the CSV file"
ErrParse == "Error parsing CSV file: read failed"

\* What one run of a strategy does to the component state: error is the
\* message handed to setError ("" when setError is not called), set tells
\* whether setProcessedData(processed) is called.
RunResult(err, proc, found) ==
    [error |-> err, set |-> err = "", processed |-> proc, emailsFound |-> found]

\* push numbering the records from 0
PushZeroBased(acc, firstName, lastName, email, rnd) ==
    LET draw == rnd[acc.emailsFound + 1]
    IN  [processed |-> Append(acc.processed,
                         [id |-> Len(acc.processed),
                          firstName |-> firstName,
                          lastName |-> lastName,
                          originalEmail |-> email,
                          aliasEmail |-> generateAlias(email, draw.num, draw.frac)]),
         emailsFound |-> acc.emailsFound + 1]

\* processed.push(...) of App.js:84-90 and App.js:160-166; draw holds the two
\* Math.random() results of this generateAlias call
Push(acc, firstName, lastName, email, rnd) ==
    LET draw == rnd[acc.emailsFound + 1]
    IN  [processed |-> Append(acc.processed,
                         [id |-> Len(acc.processed) + 1,
                          firstName |-> firstName,
                          lastName |-> lastName,
                          originalEmail |-> email,
                          aliasEmail |-> generateAlias(email, draw.num, draw.frac)]),
         emailsFound |-> acc.emailsFound + 1]

\* row => Object.values(row).some(val => val)
HeaderRowHasValue(row) == \E i \in DOMAIN row : Truthy(row[i].val)

\* The body of data.forEach in processWithHeaders, App.js:60-92
RECURSIVE HeaderForEach(_, _, _)
HeaderForEach(data, acc, rnd) ==
    IF data = <<>> THEN acc
    ELSE LET row == Head(data)
             firstName == OrEmpty(findColumn(row, FirstNameNames))
             lastName == OrEmpty(findColumn(row, LastNameNames))
             email == RowEmail(row)
         IN  HeaderForEach(Tail(data),
                 IF Truthy(email)
                 THEN Push(acc, OrEmpty(firstName), OrEmpty(lastName), email, rnd)
                 ELSE acc,
                 rnd)

\* processWithHeaders without the check for an empty table
ProcessWithHeadersNoDataCheck(results, rnd) ==
    LET data == SelectSeq(results, HeaderRowHasValue)
        acc == HeaderForEach(data, [processed |-> <<>>, emailsFound |-> 0], rnd)
    IN  IF acc.emailsFound = 0 THEN RunResult(ErrNoEmails, <<>>, 0)
        ELSE RunResult("", acc.processed, acc.emailsFound)

\* processWithHeaders(results)
processWithHeaders(results, rnd) ==
    LET data == SelectSeq(results, HeaderRowHasValue)
    IN  IF Len(data) = 0 THEN RunResult(ErrNoData, <<>>, 0)
        ELSE LET acc == HeaderForEach(data, [processed |-> <<>>, emailsFound |-> 0], rnd)
             IN  IF acc.emailsFound = 0 THEN RunResult(ErrNoEmails, <<>>, 0)
                 ELSE RunResult("", acc.processed, acc.emailsFound)

----------------------------------------------------------------------------
(* Headerless strategy                                                     *)

\* "Reasonable name length", App.js:131 and App.js:134
NameLengthLimit == 50

\* nameParts of App.js:139-145 and App.js:149-155
SplitName(prevCell) ==
    LET nameParts == SplitWS(prevCell)
    IN  IF Len(nameParts) >= 2
        THEN [firstName |-> nameParts[1], lastName |-> JoinSpace(Tail(nameParts))]
        ELSE [firstName |-> prevCell, lastName |-> <<>>]

\* The lookback with the two name cells taken in the wrong order
LookbackSwapped(row, c) ==
    IF c > 1 /\ ~Truthy(extractEmail(row[c - 1]))
    THEN LET prevCell == Trim(OrEmpty(row[c - 1]))
         IN  IF prevCell # <<>> /\ Len(prevCell) < NameLengthLimit
             THEN IF c > 2 /\ ~Truthy(extractEmail(row[c - 2]))
                  THEN LET prevPrevCell == Trim(OrEmpty(row[c - 2]))
                       IN  IF prevPrevCell # <<>> /\ Len(prevPrevCell) < NameLengthLimit
                           THEN [firstName |-> prevCell, lastName |-> prevPrevCell]
                           ELSE SplitName(prevCell)
                  ELSE SplitName(prevCell)
             ELSE [firstName |-> <<>>, lastName |-> <<>>]
    ELSE [firstName |-> <<>>, lastName |-> <<>>]

\* The name guess of App.js:124-158 for the email in cell c of row
\* (c counts from 1, cellIndex from 0)
Lookback(row, c) ==
    IF c > 1 /\ ~Truthy(extractEmail(row[c - 1]))
    THEN LET prevCell == Trim(OrEmpty(row[c - 1]))
         IN  IF prevCell # <<>> /\ Len(prevCell) < NameLengthLimit
             THEN IF c > 2 /\ ~Truthy(extractEmail(row[c - 2]))
                  THEN LET prevPrevCell == Trim(OrEmpty(row[c - 2]))
                       IN  IF prevPrevCell # <<>> /\ Len(prevPrevCell) < NameLengthLimit
                           THEN [firstName |-> prevPrevCell, lastName |-> prevCell]
                           ELSE SplitName(prevCell)
                  ELSE SplitName(prevCell)
             ELSE [firstName |-> <<>>, lastName |-> <<>>]
    ELSE [firstName |-> <<>>, lastName |-> <<>>]

\* row.forEach((cell, cellIndex) => ...), App.js:119-168, from cell c on
RECURSIVE CellForEach(_, _, _, _)
CellForEach(row, c, acc, rnd) ==
    IF c > Len(row) THEN acc
    ELSE LET email == extractEmail(row[c])
         IN  CellForEach(row, c + 1,
                 IF Truthy(email)
                 THEN LET names == Lookback(row, c)
                      IN  Push(acc, names.firstName, names.lastName, email, rnd)
                 ELSE acc,
                 rnd)

\* data.forEach((row, rowIndex) => ...), App.js:117-169
RECURSIVE RowForEach(_, _, _)
RowForEach(data, acc, rnd) ==
    IF data = <<>> THEN acc
    ELSE RowForEach(Tail(data), CellForEach(Head(data), 1, acc, rnd), rnd)

\* row => row.some(val => val)
RowHasValue(row) == \E i \in DOMAIN row : Truthy(row[i])

\* processWithoutHeaders(results)
processWithoutHeaders(results, rnd) ==
    LET data == SelectSeq(results, RowHasValue)
    IN  IF Len(data) = 0 THEN RunResult(ErrNoData, <<>>, 0)
        ELSE LET acc == RowForEach(data, [processed |-> <<>>, emailsFound |-> 0], rnd)
             IN  IF acc.emailsFound = 0 THEN RunResult(ErrNoEmails, <<>>, 0)
                 ELSE RunResult("", acc.processed, acc.emailsFound)

----------------------------------------------------------------------------
(* The parser (papaparse) as the upload handler uses it                    *)

\* A file's content is its lines in order, each line the sequence of its
\* cells; an empty line is the line of one empty cell.

\* skipEmptyLines: true
PapaLines(rows) == SelectSeq(rows, LAMBDA r : r # << <<>> >>)

Min(a, b) == IF a <= b THEN a ELSE b

\* Papa.parse(file, {header: false, skipEmptyLines: true}): results.data
PapaParseRaw(rows) == PapaLines(rows)

\* Papa.parse(file, {header: true, skipEmptyLines: true}): results.data.
\* The first line gives the field names, every later line becomes an object
\* with the keys of the cells it has.
PapaParseHeader(rows) ==
    LET lines == PapaLines(rows)
    IN  IF lines = <<>> THEN <<>>
        ELSE LET fields == lines[1]
             IN  [k \in 1..(Len(lines) - 1) |->
                     [i \in 1..Min(Len(lines[k + 1]), Len(fields)) |->
                         [key |-> fields[i], val |-> lines[k + 1][i]]]]

\* Object.keys(firstRow).some(key => emailRegex.test(key)), App.js:207
keysHaveEmail(firstRow) == \E i \in DOMAIN firstRow : emailRegexTest(firstRow[i].key)

\* Mode detection that looks for an email embedded in a key as well
HeaderlessIfAnyKeyExtracts(data) ==
    IF Len(data) > 0 /\ Len(data[1]) > 0
    THEN \E i \in DOMAIN data[1] : Truthy(extractEmail(data[1][i].key))
    ELSE TRUE

\* The branch of App.js:204-239 on the header-mode results.data: TRUE when
\* the file is parsed again without header
Headerless(data) ==
    IF Len(data) > 0 /\ Len(data[1]) > 0
    THEN keysHaveEmail(data[1])
    ELSE TRUE

----------------------------------------------------------------------------
(* Inputs: sample strings, files and random draws                          *)

sAda == <<"A","d","a">>
sLovelace == <<"L","o","v","e","l","a","c","e">>
sAdaLovelace == <<"A","d","a"," ","L","o","v","e","l","a","c","e">>
sAdaEmail == <<"a","d","a","@","x",".","c","o","m">>
sEmbedded == <<"s","e","e"," ","a","@","b",".","c","o"," ","n","o","w">>
sEmbeddedEmail == <<"a","@","b",".","c","o">>
sBlank == <<" ">>
sExtra == <<"e","x","t","r","a">>
sJohn == <<"J","o","h","n">>
sDoe == <<"D","o","e">>
sJohnEmail == <<"j","o","h","n","@","x",".","c","o","m">>
sBob == <<"B","o","b">>
sBobEmail == <<"B","o","b","@","Y",".","o","r","g">>
sDigitEmail == <<"1","a","@","x",".","c","o">>
sUnderEmail == <<"_","z","@","q",".","n","e","t">>
sPlusEmail == <<"a",".","b","+","c","@","d","-","e",".","i","o">>
sPadEmail == <<" ","a","d","a","@","x",".","c","o","m"," ">>
sNA == <<"n","/","a">>
sPhoneNo == <<"5","5","5">>
\* Names of exactly NameLengthLimit and NameLengthLimit - 1 characters
sLongName == [i \in 1..NameLengthLimit |-> "n"]
sFittingName == [i \in 1..(NameLengthLimit - 1) |-> "n"]

hFirst == <<"F","i","r","s","t">>
hLast == <<"L","a","s","t">>
hEmail == <<"E","m","a","i","l">>
hName == <<"N","a","m","e">>
hPhone == <<"P","h","o","n","e">>
hNotes == <<"N","o","t","e","s">>
hSurname == <<"S","u","r","n","a","m","e">>
hGiven == <<" ","G","I","V","E","N"," ">>
hMail == <<"M","a","i","l">>
hContact == <<"C","o","n","t","a","c","t"," ","E","-","M","a","i","l">>
hAddress == <<"M","a","i","l","i","n","g"," ","A","d","d","r","e","s","s">>
hFamily == <<"f","a","m","i","l","y"," ","n","a","m","e">>
hFirstname == <<"F","i","r","s","t","N","a","m","e">>

nCsv == <<"a",".","c","s","v">>
nTxt == <<"a",".","t","x","t">>
dotCsv == <<".","c","s","v">>

\* The two Math.random() results of one generateAlias call: num is
\* Math.floor(Math.random() * 10000), frac the base-36 digits of the second
\* draw (no digit for 0, one digit for 0.5 = "0.i", ...).
Draws == {[num |-> 42, frac |-> <<"k","2","x","9","q">>],
          [num |-> RandomNumRange - 1, frac |-> <<"i">>]}

\* The files of the upload scenarios
Files == <<
    \* 1: header row and one record
    [name |-> nCsv, rows |-> << <<hFirst, hLast, hEmail>>,
                                <<sAda, sLovelace, sAdaEmail>> >>],
    \* 2: one data row, no header
    [name |-> nCsv, rows |-> << <<sJohn, sDoe, sJohnEmail>> >>],
    \* 3: no header, an empty line, two data rows
    [name |-> nCsv, rows |-> << <<sAda, sLovelace, sAdaEmail, sExtra>>,
                                << <<>> >>,
                                <<sAdaLovelace, sBobEmail, <<>>, <<>> >> >>],
    \* 4: not a .csv name
    [name |-> nTxt, rows |-> << <<hEmail>>, <<sAdaEmail>> >>],
    \* 5: empty file
    [name |-> nCsv, rows |-> << >>],
    \* 6: header row and blank rows only
    [name |-> nCsv, rows |-> << <<hFirst, hEmail>>, << <<>>, <<>> >> >>],
    \* 7: header row, rows without any email
    [name |-> nCsv, rows |-> << <<hName, hPhone>>, <<sAda, sPhoneNo>> >>],
    \* 8: rows without header and without any email
    [name |-> nCsv, rows |-> << <<sAda, sLovelace>> >>],
    \* 9: the email column is empty and another cell holds an email
    [name |-> nCsv, rows |-> << <<hEmail, hNotes>>, << <<>>, sEmbedded>> >>],
    \* 10: no header, the first row holds an email with blanks around it
    [name |-> nCsv, rows |-> << <<sPadEmail, sAda>>, <<sBobEmail, sBob>> >>],
    \* 11: no header, the first row holds an embedded email
    [name |-> nCsv, rows |-> << <<sAda, sEmbedded>>, <<sBob, sBobEmail>> >>],
    \* 12: no header, the second line is shorter than the first
    [name |-> nCsv, rows |-> << <<sAda, sLovelace, sAdaEmail, sExtra>>,
                                <<sAdaLovelace, sBobEmail>> >>],
    \* 13: a row with several emails
    [name |-> nCsv, rows |-> << <<sUnderEmail, sBob, sBobEmail, sPlusEmail>> >>],
    \* 14: the email column holds no email and another cell does
    [name |-> nCsv, rows |-> << <<hEmail, hNotes>>, <<sNA, sAdaEmail>>,
                                <<sPadEmail, sNA>> >>],
    \* 15: several name columns, names in another order than the lists
    [name |-> nCsv, rows |-> << <<hSurname, hLast, hFirstname, hGiven, hMail, hContact>>,
                                <<sLovelace, sDoe, sAda, sJohn, sDigitEmail, sAdaEmail>> >>],
    \* 16: the email column holds no email in any row
    [name |-> nCsv, rows |-> << <<hEmail, hNotes>>, <<sNA, sAdaEmail>> >>],
    \* 17: one line of empty cells
    [name |-> nCsv, rows |-> << << <<>>, <<>> >> >>]
>>

\* event.target.files[0] of an upload without a file
NoFile == 0

\* Upper bound on the number of uploads of one behaviour
MaxUploads == 2

\* Number of cells of a file: no run emits more records
TotalCells(rows) ==
    LET RECURSIVE Sum(_)
        Sum(rs) == IF rs = <<>> THEN 0 ELSE Len(Head(rs)) + Sum(Tail(rs))
    IN  Sum(rows)

\* The random draws of one run: one per generateAlias call
Rnds(n) == [1..n -> Draws]
SomeRnd(rows) == [i \in 1..TotalCells(rows) |-> CHOOSE d \in Draws : TRUE]

----------------------------------------------------------------------------
(* The component: state, handlers and parser callbacks                     *)

NoRun == [error |-> "", set |-> FALSE, processed |-> <<>>, emailsFound |-> 0]
NoCall == [op |-> "none"]

Event(kind, req, file, strategy, run) ==
    [kind |-> kind, req |-> req, file |-> file, strategy |-> strategy, run |-> run]

Init ==
    /\ uploadedData = <<>>
    /\ processedData = <<>>
    /\ isProcessing = FALSE
    /\ error = ""
    /\ parses = {}
    /\ nextReq = 0
    /\ lastEvent = Event("init", 0, NoFile, "none", NoRun)
    /\ landed = <<>>
    /\ call = NoCall

\* handleFileUpload(event), App.js:182-250, up to the call of Papa.parse
HandleFileUpload(f) ==
    /\ nextReq < MaxUploads
    /\ nextReq' = nextReq + 1
    /\ IF f = NoFile
       THEN /\ error' = ""
            /\ UNCHANGED <<isProcessing, parses>>
            /\ lastEvent' = Event("nofile", nextReq + 1, f, "none", NoRun)
       ELSE IF ~EndsWith(Files[f].name, dotCsv)
       THEN /\ error' = ErrFileType
            /\ UNCHANGED <<isProcessing, parses>>
            /\ lastEvent' = Event("rejected", nextReq + 1, f, "none", NoRun)
       ELSE /\ error' = ""
            /\ isProcessing' = TRUE
            /\ parses' = parses \cup {[req |-> nextReq + 1, file |-> f, header |-> TRUE]}
            /\ lastEvent' = Event("started", nextReq + 1, f, "none", NoRun)
    /\ UNCHANGED <<uploadedData, processedData, landed, call>>

\* A run that empties the record list when it fails
ApplyRunClearing(p, strategy, run) ==
    /\ error' = IF run.error # "" THEN run.error ELSE error
    /\ processedData' = run.processed
    /\ isProcessing' = FALSE
    /\ parses' = parses \ {p}
    /\ lastEvent' = Event(IF run.set THEN "succeeded" ELSE "failed",
                          p.req, p.file, strategy, run)
    /\ landed' = IF run.set THEN Append(landed, [req |-> p.req, file |-> p.file])
                  ELSE landed
    /\ UNCHANGED <<uploadedData, nextReq, call>>

\* A run whose records are dropped when a later upload has been started
ApplyRunLatestOnly(p, strategy, run) ==
    /\ error' = IF run.error # "" THEN run.error ELSE error
    /\ processedData' = IF run.set /\ p.req = nextReq THEN run.processed
                         ELSE processedData
    /\ isProcessing' = FALSE
    /\ parses' = parses \ {p}
    /\ lastEvent' = Event(IF run.set THEN "succeeded" ELSE "failed",
                          p.req, p.file, strategy, run)
    /\ landed' = IF run.set /\ p.req = nextReq
                  THEN Append(landed, [req |-> p.req, file |-> p.file])
                  ELSE landed
    /\ UNCHANGED <<uploadedData, nextReq, call>>

\* The setState calls of one strategy run, App.js:51-55, 94-101, 108-112, 171-178
ApplyRun(p, strategy, run) ==
    /\ error' = IF run.error # "" THEN run.error ELSE error
    /\ processedData' = IF run.set THEN run.processed ELSE processedData
    /\ isProcessing' = FALSE
    /\ parses' = parses \ {p}
    /\ lastEvent' = Event(IF run.set THEN "succeeded" ELSE "failed",
                          p.req, p.file, strategy, run)
    /\ landed' = IF run.set THEN Append(landed, [req |-> p.req, file |-> p.file])
                  ELSE landed
    /\ UNCHANGED <<uploadedData, nextReq, call>>

\* What the parser and the strategies give for each file of the scenarios
\* (the results depend on the file and the random draws only)
HeaderParse == [f \in DOMAIN Files |-> PapaParseHeader(Files[f].rows)]
RawParse == [f \in DOMAIN Files |-> PapaParseRaw(Files[f].rows)]
HeaderRuns ==
    [f \in DOMAIN Files |->
        {processWithHeaders(HeaderParse[f], rnd) :
            rnd \in Rnds(processWithHeaders(HeaderParse[f], SomeRnd(Files[f].rows)).emailsFound)}]
HeaderlessRuns ==
    [f \in DOMAIN Files |->
        {processWithoutHeaders(RawParse[f], rnd) :
            rnd \in Rnds(processWithoutHeaders(RawParse[f], SomeRnd(Files[f].rows)).emailsFound)}]

\* complete callback of the header-mode parse, App.js:201-244
ParseComplete(p) ==
    /\ p \in parses
    /\ p.header
    /\ IF Headerless(HeaderParse[p.file])
       THEN /\ parses' = (parses \ {p}) \cup {[p EXCEPT !.header = FALSE]}
            /\ lastEvent' = Event("reparse", p.req, p.file, "none", NoRun)
            /\ UNCHANGED <<uploadedData, processedData, isProcessing, error,
                           nextReq, landed, call>>
       ELSE \E run \in HeaderRuns[p.file] : ApplyRun(p, "headers", run)

\* complete callback of the parse without header, App.js:214-216, 231-233
ReparseComplete(p) ==
    /\ p \in parses
    /\ ~p.header
    /\ \E run \in HeaderlessRuns[p.file] : ApplyRun(p, "headerless", run)

\* An error callback that leaves the processing flag set
ParseErrorKeepsFlag(p) ==
    /\ p \in parses
    /\ error' = ErrParse
    /\ parses' = parses \ {p}
    /\ lastEvent' = Event("failed", p.req, p.file, "none", NoRun)
    /\ UNCHANGED <<uploadedData, processedData, isProcessing, nextReq, landed, call>>

\* error callback of either parse, App.js:217-220, 234-237, 245-248
ParseError(p) ==
    /\ p \in parses
    /\ error' = ErrParse
    /\ isProcessing' = FALSE
    /\ parses' = parses \ {p}
    /\ lastEvent' = Event("failed", p.req, p.file, "none", NoRun)
    /\ UNCHANGED <<uploadedData, processedData, nextReq, landed, call>>

\* clearData, App.js:276-285
ClearData ==
    /\ uploadedData' = <<>>
    /\ processedData' = <<>>
    /\ error' = ""
    /\ lastEvent' = Event("cleared", 0, NoFile, "none", NoRun)
    /\ landed' = <<>>
    /\ UNCHANGED <<isProcessing, parses, nextReq, call>>

Next ==
    \/ \E f \in {NoFile} \cup DOMAIN Files : HandleFileUpload(f)
    \/ \E p \in parses : ParseComplete(p)
    \/ \E p \in parses : ReparseComplete(p)
    \/ \E p \in parses : ParseError(p)
    \/ ClearData

Spec == Init /\ [][Next]_vars

----------------------------------------------------------------------------
(* The extraction strategies and generateAlias as functions: one call per  *)
(* behaviour, the arguments drawn by Init                                  *)

\* Upper bound on the number of cells of a generated row
MaxCols == 3

CellPool == {<<>>, sBlank, sAda, sAdaLovelace, sAdaEmail, sEmbedded,
             sLongName, sFittingName}
SmallPool == {<<>>, sAda, sBobEmail, sEmbedded}

HeaderPool == { <<hFirst, hLast, hEmail>>,
                <<hEmail, hNotes, hName>>,
                <<hSurname, hLast, hMail>>,
                <<hName, hPhone, hNotes>>,
                <<hGiven, hFamily, hContact>>,
                <<hAddress, hFirstname, hFirst>>,
                <<hNotes, hMail, hEmail>> }
SmallHeaderPool == { <<hName, hEmail>>, <<hName, hNotes>>, <<hEmail, hMail>> }

RowsUpTo(n) == UNION {[1..k -> CellPool] : k \in 1..n}
SmallRows == [1..2 -> SmallPool]

\* The two rows of the lookback examples
ExampleRows == {<<sAda, sLovelace, sAdaEmail, sExtra>>, <<sAdaLovelace, sAdaEmail>>}

HeaderlessTables ==
    {<<r>> : r \in RowsUpTo(MaxCols) \cup ExampleRows}
    \cup {<<r[1], r[2]>> : r \in SmallRows \X SmallRows}

HeaderTables ==
    {<<hr[1], hr[2]>> : hr \in {x \in HeaderPool \X RowsUpTo(MaxCols) :
                                  Len(x[2]) <= Len(x[1])}}
    \cup {<<x[1], x[2], x[3]>> : x \in SmallHeaderPool \X SmallRows \X SmallRows}

AliasEmails == {sAdaEmail, sBobEmail, sDigitEmail, sUnderEmail, sPlusEmail, sJohnEmail}
AliasNums == {0, 7, 42, 917, RandomNumRange - 1}
AliasFracs == {<<>>, <<"i">>, <<"4","i">>, <<"k","2","x">>,
               <<"0","0","z","q">>, <<"z","z","z","z","z">>}

InitCalls ==
    /\ uploadedData = <<>>
    /\ processedData = <<>>
    /\ isProcessing = FALSE
    /\ error = ""
    /\ parses = {}
    /\ nextReq = 0
    /\ lastEvent = Event("init", 0, NoFile, "none", NoRun)
    /\ landed = <<>>
    /\ \/ \E t \in HeaderTables :
              call = [op |-> "headers", rows |-> t, done |-> FALSE, run |-> NoRun]
       \/ \E t \in HeaderlessTables :
              call = [op |-> "headerless", rows |-> t, done |-> FALSE, run |-> NoRun]
       \/ \E e \in AliasEmails, n \in AliasNums, f \in AliasFracs :
              call = [op |-> "alias", email |-> e, num |-> n, frac |-> f,
                      done |-> FALSE, alias |-> <<>>]

\* processWithHeaders on the header-mode parse of call.rows
CallHeaders ==
    /\ call.op = "headers"
    /\ ~call.done
    /\ LET data == PapaParseHeader(call.rows)
       IN  \E rnd \in Rnds(processWithHeaders(data, SomeRnd(call.rows)).emailsFound) :
               call' = [call EXCEPT !.done = TRUE, !.run = processWithHeaders(data, rnd)]
    /\ UNCHANGED <<uploadedData, processedData, isProcessing, error, parses,
                   nextReq, lastEvent, landed>>

\* processWithoutHeaders on the parse without header of call.rows
CallHeaderless ==
    /\ call.op = "headerless"
    /\ ~call.done
    /\ LET data == PapaParseRaw(call.rows)
       IN  \E rnd \in Rnds(processWithoutHeaders(data, SomeRnd(call.rows)).emailsFound) :
               call' = [call EXCEPT !.done = TRUE, !.run = processWithoutHeaders(data, rnd)]
    /\ UNCHANGED <<uploadedData, processedData, isProcessing, error, parses,
                   nextReq, lastEvent, landed>>

\* generateAlias(call.email)
CallAlias ==
    /\ call.op = "alias"
    /\ ~call.done
    /\ call' = [call EXCEPT !.done = TRUE,
                            !.alias = generateAlias(call.email, call.num, call.frac)]
    /\ UNCHANGED <<uploadedData, processedData, isProcessing, error, parses,
                   nextReq, lastEvent, landed>>

NextCalls == CallHeaders \/ CallHeaderless \/ CallAlias

SpecCalls == InitCalls /\ [][NextCalls]_vars

----------------------------------------------------------------------------
(* Properties                                                              *)

Emails(processed) == [i \in DOMAIN processed |-> processed[i].originalEmail]

\* The rows a strategy keeps: those with a truthy value
KeptHeaderRows(rows) == SelectSeq(PapaParseHeader(rows), HeaderRowHasValue)
KeptRows(rows) == SelectSeq(PapaParseRaw(rows), RowHasValue)

NameSet(possibleNames) == Range(possibleNames)

\* The fields of row whose lower-cased, trimmed name contains a name of names
FieldsNamed(row, names) ==
    {i \in DOMAIN row :
        \E n \in names : Includes(Trim(ToLowerCase(row[i].key)), n)}

First(S) == CHOOSE i \in S : \A j \in S : i <= j

C1_RowEmail(row) ==
    LET named == FieldsNamed(row, NameSet(EmailNames))
    IN  IF named # {} THEN extractEmail(row[First(named)].val)
        ELSE ScanValues(row)

RECURSIVE C1_Emails(_)
C1_Emails(data) ==
    IF data = <<>> THEN <<>>
    ELSE LET e == C1_RowEmail(Head(data))
         IN  (IF Truthy(e) THEN <<e>> ELSE <<>>) \o C1_Emails(Tail(data))

\* C1: in the header strategy a row with an email-named field takes its
\* email from extractEmail of the first such field's cell only, and yields no
\* record when that fails (empty cell included); other values are scanned
\* only when no field name matches.
C1_NamedColumnAuthoritative ==
    (call.op = "headers" /\ call.done)
        => Emails(call.run.processed) = C1_Emails(KeptHeaderRows(call.rows))

\* s matches ^[first][0-9]{1,4}[0-9a-z]{lo,hi}@cdnhyd.appen.com$
AliasMatches(s, first, lo, hi) ==
    \E nd \in 1..4, nf \in lo..hi :
        /\ Len(s) = 1 + nd + nf + Len(AliasDomain)
        /\ s[1] \in first
        /\ AllIn(s, 2, 1 + nd, Digit)
        /\ AllIn(s, 2 + nd, 1 + nd + nf, Base36)
        /\ SubSeq(s, 2 + nd + nf, Len(s)) = AliasDomain

C2_FirstIsLowerOfLocal ==
    call.alias[1] = ToLowerChar(call.email[1])

CellsOf(rows) == UNION {Range(rows[k]) : k \in DOMAIN rows}

EventRows == Files[lastEvent.file].rows

\* The email-bearing cells of each file
FileEmails ==
    [f \in DOMAIN Files |->
        {extractEmail(cell) : cell \in {c \in CellsOf(Files[f].rows) : Truthy(extractEmail(c))}}]

\* C3: every record of the record list has an originalEmail that matches
\* the anchored email pattern in full and a non-empty aliasEmail, and every
\* record of a run carries what extractEmail returned for a cell of the file.
C3_RecordsHaveValidEmail ==
    /\ \A i \in DOMAIN processedData :
           /\ emailRegexTest(processedData[i].originalEmail)
           /\ processedData[i].aliasEmail # <<>>
    /\ lastEvent.strategy # "none" =>
           \A i \in DOMAIN lastEvent.run.processed :
               lastEvent.run.processed[i].originalEmail \in FileEmails[lastEvent.file]

C3_Witness ==
    /\ lastEvent.kind = "succeeded"
    /\ \E i \in DOMAIN processedData : processedData[i].originalEmail = sEmbeddedEmail
    /\ \E cell \in CellsOf(EventRows) : ~Truthy(extractEmail(cell))

\* The condition of C4 on the lines of a file: the header-mode parse has no
\* first result row, or that row has no field, or one of its field names is
\* an email in full.
C4_HeaderlessCondition(rows) ==
    LET lines == SelectSeq(rows, LAMBDA r : r # << <<>> >>)
    IN  \/ Len(lines) < 2
        \/ Min(Len(lines[1]), Len(lines[2])) = 0
        \/ \E i \in 1..Min(Len(lines[1]), Len(lines[2])) : emailRegexTest(lines[1][i])

C4_FileHeaderless == [f \in DOMAIN Files |-> C4_HeaderlessCondition(Files[f].rows)]

RECURSIVE EmailCellsFrom(_, _, _)
EmailCellsFrom(data, r, c) ==
    IF r > Len(data) THEN <<>>
    ELSE IF c > Len(data[r]) THEN EmailCellsFrom(data, r + 1, 1)
    ELSE (IF Truthy(extractEmail(data[r][c])) THEN << <<r, c>> >> ELSE <<>>)
         \o EmailCellsFrom(data, r, c + 1)

EmailCells(data) == EmailCellsFrom(data, 1, 1)

\* A preceding cell counts as a name: it exists, does not extract as an
\* email, and trimmed is non-empty and shorter than 50 characters
C5_Qualifies(row, k) ==
    /\ k >= 1
    /\ ~Truthy(extractEmail(row[k]))
    /\ Trim(row[k]) # <<>>
    /\ Len(Trim(row[k])) < NameLengthLimit

C5_Names(row, c) ==
    IF C5_Qualifies(row, c - 1) /\ C5_Qualifies(row, c - 2)
    THEN [firstName |-> Trim(row[c - 2]), lastName |-> Trim(row[c - 1])]
    ELSE IF C5_Qualifies(row, c - 1)
    THEN LET tokens == SplitWS(Trim(row[c - 1]))
         IN  IF Len(tokens) = 1
             THEN [firstName |-> Trim(row[c - 1]), lastName |-> <<>>]
             ELSE [firstName |-> tokens[1], lastName |-> JoinSpace(Tail(tokens))]
    ELSE [firstName |-> <<>>, lastName |-> <<>>]

\* C5: in the headerless strategy the names of the record of the email in
\* cell i are p2, p1 when both preceding cells qualify, the whitespace split
\* of p1 when only p1 qualifies, and empty when p1 does not qualify; the
\* rows Ada, Lovelace, ada@x.com, extra and "Ada Lovelace", ada@x.com both
\* give firstName Ada and lastName Lovelace.
C5_LookbackNames ==
    (call.op = "headerless" /\ call.done) =>
        LET data == KeptRows(call.rows)
            cells == EmailCells(data)
            processed == call.run.processed
        IN  /\ Len(processed) = Len(cells)
            /\ \A k \in DOMAIN processed :
                   LET names == C5_Names(data[cells[k][1]], cells[k][2])
                   IN  /\ processed[k].firstName = names.firstName
                       /\ processed[k].lastName = names.lastName
            /\ (call.rows[1] \in ExampleRows) =>
                   /\ Len(processed) = 1
                   /\ processed[1].firstName = sAda
                   /\ processed[1].lastName = sLovelace

C5_Witness ==
    /\ call.op = "headerless" /\ call.done
    /\ call.rows = << <<sAda, sLovelace, sAdaEmail, sExtra>> >>
    /\ call.run.processed[1].lastName = sLovelace

\* id, names and email of the records, without the random alias
Core(processed) ==
    [i \in DOMAIN processed |->
        <<processed[i].id, processed[i].firstName, processed[i].lastName,
          processed[i].originalEmail>>]

\* The records one upload of a file computes, without the random alias
RecordsOf(rows) ==
    IF Headerless(PapaParseHeader(rows))
    THEN Core(processWithoutHeaders(PapaParseRaw(rows), SomeRnd(rows)).processed)
    ELSE Core(processWithHeaders(PapaParseHeader(rows), SomeRnd(rows)).processed)

FileRecords == [f \in DOMAIN Files |-> RecordsOf(Files[f].rows)]

C6_Step ==
    /\ lastEvent'.kind \in {"nofile", "rejected", "started", "reparse", "failed"}
           => processedData' = processedData
    /\ lastEvent'.kind = "succeeded"
           => /\ processedData' # <<>>
              /\ Core(processedData') = FileRecords[lastEvent'.file]

\* C6: an upload attempt that fails (file name, parse error, NoData,
\* NoEmailsFound) leaves the record list as it was, and an upload that
\* succeeds sets it to exactly the records computed from that file.
C6_AllOrNothing == [][C6_Step]_vars

C6_Witness ==
    /\ lastEvent.kind = "failed"
    /\ lastEvent.run.error = ErrNoEmails
    /\ landed # <<>>
    /\ processedData # <<>>

\* The rows a run works on, each as the sequence of its cell values
C7_Rows ==
    IF call.op = "headers"
    THEN LET data == PapaParseHeader(call.rows)
         IN  [k \in DOMAIN data |-> [i \in DOMAIN data[k] |-> data[k][i].val]]
    ELSE PapaParseRaw(call.rows)

C7_AllBlank == \A k \in DOMAIN C7_Rows : \A i \in DOMAIN C7_Rows[k] : ~Truthy(C7_Rows[k][i])

C7_AnyExtractable ==
    \E k \in DOMAIN C7_Rows : \E i \in DOMAIN C7_Rows[k] : Truthy(extractEmail(C7_Rows[k][i]))

\* C7: in both strategies the run reports NoData when every row is blank,
\* NoEmailsFound (and no record) when a non-blank row remains and no cell
\* yields an email, never both, and neither when an email was extracted.
C7_NoDataOrNoEmails ==
    (call.op \in {"headers", "headerless"} /\ call.done) =>
        /\ C7_AllBlank => (call.run.error = ErrNoData /\ call.run.processed = <<>>)
        /\ (~C7_AllBlank /\ ~C7_AnyExtractable)
               => (call.run.error = ErrNoEmails /\ call.run.processed = <<>>)
        /\ call.run.error = ErrNoData => C7_AllBlank
        /\ call.run.error = ErrNoEmails => ~C7_AllBlank
        /\ call.run.error \in {"", ErrNoData, ErrNoEmails}
        /\ call.run.emailsFound > 0 => (call.run.error = "" /\ call.run.set)
        /\ (call.op = "headerless" /\ C7_AnyExtractable) => call.run.error = ""

C7_Witness ==
    /\ call.op = "headers" /\ call.done
    /\ ~C7_AllBlank
    /\ call.run.error = ErrNoEmails

\* C8: nothing ties a completion to the latest request: the record list is
\* that of the upload whose run completed last, also when a later upload had
\* been started before.
C8_LastCompletionWins ==
    /\ (lastEvent.kind = "succeeded" /\ lastEvent.req < nextReq)
           => Core(processedData) = FileRecords[lastEvent.file]
    /\ landed # <<>>
           => Core(processedData) = FileRecords[landed[Len(landed)].file]

\* Upload 1 completes after upload 2 and its records are the ones shown
C8_Witness ==
    /\ Len(landed) = 2
    /\ landed[1].req = 2
    /\ landed[2].req = 1
    /\ Core(processedData) = FileRecords[landed[2].file]
    /\ Core(processedData) # FileRecords[landed[1].file]

\* C9: the ids of a run's records are 1..N in emission order and N is
\* emailsFound; the header strategy emits at most one record per kept row,
\* in row order; the headerless strategy emits one record per email-bearing
\* cell, rows in order and cells left to right.
C9_SequentialIds ==
    (call.op \in {"headers", "headerless"} /\ call.done) =>
        LET processed == call.run.processed
            N == Len(processed)
        IN  /\ \A i \in 1..N : processed[i].id = i
            /\ N = call.run.emailsFound
            /\ call.op = "headerless" =>
                   LET data == KeptRows(call.rows)
                       cells == EmailCells(data)
                   IN  /\ N = Len(cells)
                       /\ \A k \in 1..N :
                              processed[k].originalEmail
                                  = extractEmail(data[cells[k][1]][cells[k][2]])
            /\ call.op = "headers" =>
                   LET data == KeptHeaderRows(call.rows)
                   IN  /\ N <= Len(data)
                       /\ \E rowOf \in [1..N -> DOMAIN data] :
                              /\ \A j, k \in 1..N : j < k => rowOf[j] < rowOf[k]
                              /\ \A k \in 1..N :
                                     \E i \in DOMAIN data[rowOf[k]] :
                                         processed[k].originalEmail
                                             = extractEmail(data[rowOf[k]][i].val)

C9_Witness ==
    /\ call.op = "headerless" /\ call.done
    /\ call.rows = << <<sAdaEmail, sAda, sEmbedded>> >>
    /\ Len(call.run.processed) = 2
    /\ call.run.processed[2].id = 2
    /\ call.run.processed[2].originalEmail = sEmbeddedEmail

\* C10: in the header strategy firstName, lastName and the candidate email
\* cell are the value of the first field, in field order, whose lower-cased
\* trimmed name contains a name of the respective list; the names are empty
\* when no field matches; when no field name matches the email list the
\* email is the first successful extractEmail over the values.
C10_FirstMatchingField ==
    (call.op = "headers" /\ call.done /\ Len(call.rows) = 2
     /\ Len(PapaParseHeader(call.rows)) = 1) =>
        LET row == PapaParseHeader(call.rows)[1]
            fn == FieldsNamed(row, NameSet(FirstNameNames))
            ln == FieldsNamed(row, NameSet(LastNameNames))
            en == FieldsNamed(row, NameSet(EmailNames))
            processed == call.run.processed
        IN  /\ call.run.set =>
                /\ Len(processed) = 1
                /\ processed[1].firstName = IF fn = {} THEN <<>> ELSE row[First(fn)].val
                /\ processed[1].lastName = IF ln = {} THEN <<>> ELSE row[First(ln)].val
                /\ en = {} =>
                       \E i \in DOMAIN row :
                           /\ processed[1].originalEmail = extractEmail(row[i].val)
                           /\ Truthy(extractEmail(row[i].val))
                           /\ \A j \in 1..(i - 1) : ~Truthy(extractEmail(row[j].val))
                /\ (en # {} /\ Truthy(row[First(en)].val)) =>
                       processed[1].originalEmail = extractEmail(row[First(en)].val)
            /\ (en = {} /\ \E i \in DOMAIN row : Truthy(extractEmail(row[i].val)))
                   => call.run.set
            /\ (en # {} /\ Truthy(extractEmail(row[First(en)].val))) => call.run.set
            /\ (en # {} /\ Truthy(row[First(en)].val)
                /\ ~Truthy(extractEmail(row[First(en)].val))) => ~call.run.set

C10_Witness ==
    /\ call.op = "headers" /\ call.done
    /\ call.rows = << <<hSurname, hLast, hMail>>, <<sAda, sAdaLovelace, sAdaEmail>> >>
    /\ call.run.processed[1].lastName = sAda
    /\ call.run.processed[1].firstName = <<>>

\* The requests with a parse in flight
InFlight(ps) == {p.req : p \in ps}

\* C11 as stated: after every failure outcome (rejected file name, parse
\* error, NoData, NoEmailsFound) the error message is non-empty and the
\* processing flag is false.
C11_FailureClearsFlag ==
    lastEvent.kind \in {"rejected", "failed"} => (error # "" /\ ~isProcessing)

C11_Step ==
    \* a terminal callback of an upload ends with the flag false
    /\ lastEvent'.kind \in {"succeeded", "failed"} => ~isProcessing'
    \* every failure sets a message; none starts a parse or an upload again
    /\ lastEvent'.kind \in {"rejected", "failed"} =>
           /\ error' # ""
           /\ lastEvent'.req \notin InFlight(parses')
           /\ parses' \subseteq parses
    /\ lastEvent'.kind = "failed" => nextReq' = nextReq
    \* a rejected file name leaves the flag as it was
    /\ lastEvent'.kind = "rejected" => isProcessing' = isProcessing
    \* the flag is set when parsing starts and stays set while that upload is
    \* the only one in flight
    /\ lastEvent'.kind = "started" => isProcessing'
    /\ (isProcessing /\ Cardinality(parses) = 1 /\ Cardinality(parses') = 1
        /\ InFlight(parses') = InFlight(parses)) => isProcessing'

\* C11 amended: every terminal parser callback of an upload leaves the
\* processing flag false; every failure outcome sets a non-empty error
\* message and retries nothing; a failure reported by a callback clears the
\* flag, while a file rejected for its name leaves the flag as it was; with a
\* single upload in flight the flag is true from the start of parsing until
\* the terminal outcome.
C11_TerminalOutcomes == [][C11_Step]_vars

\* A file name is rejected while an earlier upload is still being parsed
C11_Witness ==
    /\ lastEvent.kind = "rejected"
    /\ error = ErrFileType
    /\ parses # {}
    /\ isProcessing

\* The emails that extractEmail finds in the cells of each file's first line
FirstRowEmails ==
    [f \in DOMAIN Files |->
        IF RawParse[f] = <<>> THEN {}
        ELSE {extractEmail(cell) :
                 cell \in {c \in Range(RawParse[f][1]) : Truthy(extractEmail(c))}}]

\* C12: when the complete callback has processed a file, every email that
\* extractEmail finds in a cell of the file's first row (the whole trimmed
\* cell, or an email embedded in longer text) is the originalEmail of a
\* record of the run, and the upload has succeeded.
C12_FirstRowEmailKept ==
    (lastEvent.kind \in {"succeeded", "failed"} /\ lastEvent.strategy # "none") =>
        \A e \in FirstRowEmails[lastEvent.file] :
            /\ lastEvent.kind = "succeeded"
            /\ \E i \in DOMAIN lastEvent.run.processed :
                   lastEvent.run.processed[i].originalEmail = e

====
